---------------------------- MODULE Spec2Model ----------------------------
(***************************************************************************)
(* CubeSat telemetry pipeline: the emulator (src/emulator.py) that builds  *)
(* checksummed text frames and writes them to a TCP connection, and the    *)
(* receiver (src/receiver.py) that reassembles the byte stream into lines, *)
(* validates each line and stores or discards it.                          *)
(*                                                                         *)
(* Text is a sequence of code points, the wire a sequence of bytes.        *)
(* Readings on the emulator side are fixed-point numbers (hundredths for   *)
(* values, seconds + milliseconds for timestamps); what float() returns on *)
(* the receiver side is a decimal record [kind, neg, whole, frac].         *)
(***************************************************************************)
EXTENDS Integers, Sequences, FiniteSets, TLC

(***************************************************************************)
(* Bounds of the model.                                                    *)
(***************************************************************************)
\* longest raw byte stream over RawAlphabet handed to the receiver
MaxRawLen == 4
\* most frames in a stream built from FramePool
MaxFrames == 2
\* most packets the emulator writes in one run
MaxPackets == 4
\* the size of a short read in the system model, where recv returns either
\* everything available or this many bytes
ShortRead == 20

(***************************************************************************)
(* Characters.                                                             *)
(***************************************************************************)
NL == 10
PIPE == 124
DOT == 46
MINUS == 45
PLUS == 43
UNDERSCORE == 95
ZERO == 48

\* "SAT"
HeaderSAT == <<83, 65, 84>>
\* SENSORS keys, in dict order
TEMP == <<84, 69, 77, 80>>
HUMIDITY == <<72, 85, 77, 73, 68, 73, 84, 89>>
DISTANCE == <<68, 73, 83, 84, 65, 78, 67, 69>>
SensorOrder == <<TEMP, HUMIDITY, DISTANCE>>
\* "SAT|CORRUPTED|###\n"
CorruptFrame ==
    <<83, 65, 84, 124, 67, 79, 82, 82, 85, 80, 84, 69, 68, 124, 35, 35, 35, 10>>

(***************************************************************************)
(* Sequence helpers.                                                       *)
(***************************************************************************)
Min(a, b) == IF a <= b THEN a ELSE b

\* <<1, ..., n>>
Indices(n) == [i \in 1..n |-> i]

\* 0, or the first index of c in s
IndexOf(s, c) ==
    LET IsHit(i) == s[i] = c
        hits == SelectSeq(Indices(Len(s)), IsHit)
    IN  IF hits = <<>> THEN 0 ELSE hits[1]

Contains(s, c) == IndexOf(s, c) # 0

\* str.split(sep): always at least one part
RECURSIVE Split(_, _)
Split(s, sep) ==
    LET k == IndexOf(s, sep)
    IN  IF k = 0 THEN <<s>>
        ELSE <<SubSeq(s, 1, k - 1)>> \o Split(SubSeq(s, k + 1, Len(s)), sep)

\* the characters str.strip() removes
IsSpace(c) ==
    \/ c \in 9..13
    \/ c \in 28..32
    \/ c \in {133, 160, 5760, 8232, 8233, 8239, 8287, 12288}
    \/ c \in 8192..8202

\* a strip that removes one trailing record separator and nothing else
Strip_newline(s) ==
    IF s # <<>> /\ s[Len(s)] = NL THEN SubSeq(s, 1, Len(s) - 1) ELSE s

\* str.strip()
Strip(s) ==
    LET Kept(i) == ~IsSpace(s[i])
        kept == SelectSeq(Indices(Len(s)), Kept)
    IN  IF kept = <<>> THEN <<>> ELSE SubSeq(s, kept[1], kept[Len(kept)])

(***************************************************************************)
(* checksum(): running exclusive-or of ord(char), format(result, '02X').    *)
(***************************************************************************)
RECURSIVE Xor(_, _)
Xor(a, b) ==
    IF a = 0 THEN b
    ELSE IF b = 0 THEN a
    ELSE (((a % 2) + (b % 2)) % 2) + 2 * Xor(a \div 2, b \div 2)

\* the exclusive-or of data[lo..hi]: the for loop's running result, grouped
\* in halves
RECURSIVE XorAll(_, _, _)
XorAll(data, lo, hi) ==
    IF lo > hi THEN 0
    ELSE IF lo = hi THEN data[lo]
    ELSE LET mid == (lo + hi) \div 2
         IN  Xor(XorAll(data, lo, mid), XorAll(data, mid + 1, hi))

HexDigit(d) == IF d < 10 THEN ZERO + d ELSE 65 + (d - 10)

RECURSIVE HexDigits(_)
HexDigits(n) ==
    IF n < 16 THEN <<HexDigit(n)>>
    ELSE HexDigits(n \div 16) \o <<HexDigit(n % 16)>>

\* format(n, '02X'): upper-case hex, zero-padded to width 2
Format02X(n) ==
    IF n < 16 THEN <<ZERO>> \o HexDigits(n) ELSE HexDigits(n)

\* a checksum that keeps only the low four bits of the running value
checksum_low(data) == Format02X(XorAll(data, 1, Len(data)) % 16)

checksum(data) == Format02X(XorAll(data, 1, Len(data)))

(***************************************************************************)
(* bytes.decode('utf-8') and str.encode('utf-8').  A decode result is      *)
(* [ok, text]; ok = FALSE stands for the UnicodeDecodeError it raises.     *)
(***************************************************************************)
IsCont(b) == b \in 128..191

DecodeFail == [ok |-> FALSE, text |-> <<>>]

\* the code point of the character that starts at b[i] and the number of
\* bytes it takes; len = 0 when no valid character starts there
Utf8At(b, i) ==
    LET b1 == b[i]
        n  == Len(b) - i
    IN  IF b1 < 128 THEN [len |-> 1, cp |-> b1]
        ELSE IF b1 \in 194..223 THEN
            IF n >= 1 /\ IsCont(b[i + 1])
            THEN [len |-> 2, cp |-> (b1 - 192) * 64 + (b[i + 1] - 128)]
            ELSE [len |-> 0, cp |-> 0]
        ELSE IF b1 \in 224..239 THEN
            IF /\ n >= 2
               /\ b[i + 1] \in (IF b1 = 224 THEN 160..191
                                ELSE IF b1 = 237 THEN 128..159
                                ELSE 128..191)
               /\ IsCont(b[i + 2])
            THEN [len |-> 3, cp |-> (b1 - 224) * 4096 + (b[i + 1] - 128) * 64
                                      + (b[i + 2] - 128)]
            ELSE [len |-> 0, cp |-> 0]
        ELSE IF b1 \in 240..244 THEN
            IF /\ n >= 3
               /\ b[i + 1] \in (IF b1 = 240 THEN 144..191
                                ELSE IF b1 = 244 THEN 128..143
                                ELSE 128..191)
               /\ IsCont(b[i + 2])
               /\ IsCont(b[i + 3])
            THEN [len |-> 4, cp |-> (b1 - 240) * 262144 + (b[i + 1] - 128) * 4096
                                      + (b[i + 2] - 128) * 64 + (b[i + 3] - 128)]
            ELSE [len |-> 0, cp |-> 0]
        ELSE [len |-> 0, cp |-> 0]

\* a byte string decodes when it is a chain of valid characters: every byte
\* that is no continuation byte starts a character that ends where the next
\* one starts
Utf8Decode(b) ==
    LET IsStart(i) == ~IsCont(b[i])
        starts == SelectSeq(Indices(Len(b)), IsStart)
        EndsAt(k) == IF k < Len(starts) THEN starts[k + 1] ELSE Len(b) + 1
        ok == \/ b = <<>>
              \/ /\ starts # <<>>
                 /\ starts[1] = 1
                 /\ \A k \in 1..Len(starts) :
                        Utf8At(b, starts[k]).len = EndsAt(k) - starts[k]
    IN  IF ok THEN [ok |-> TRUE,
                    text |-> [k \in 1..Len(starts) |-> Utf8At(b, starts[k]).cp]]
        ELSE DecodeFail

Utf8Char(c) ==
    IF c < 128 THEN <<c>>
    ELSE IF c < 2048 THEN <<192 + (c \div 64), 128 + (c % 64)>>
    ELSE IF c < 65536
         THEN <<224 + (c \div 4096), 128 + ((c \div 64) % 64), 128 + (c % 64)>>
    ELSE <<240 + (c \div 262144), 128 + ((c \div 4096) % 64),
           128 + ((c \div 64) % 64), 128 + (c % 64)>>

\* the bytes of text[lo..hi]
RECURSIVE Utf8Range(_, _, _)
Utf8Range(text, lo, hi) ==
    IF lo > hi THEN <<>>
    ELSE IF lo = hi THEN Utf8Char(text[lo])
    ELSE LET mid == (lo + hi) \div 2
         IN  Utf8Range(text, lo, mid) \o Utf8Range(text, mid + 1, hi)

Utf8Encode(text) == Utf8Range(text, 1, Len(text))

(***************************************************************************)
(* Emulator side numbers and their text: round(x, n) and the float repr an *)
(* f-string writes (shortest digits, at least one after the point).  The   *)
(* clock is [sec, us]; a rounded timestamp is [sec, ms]; a rounded value   *)
(* is [neg, mag] with mag in hundredths (neg with mag = 0 is -0.0).        *)
(***************************************************************************)
Abs(n) == IF n < 0 THEN -n ELSE n

\* round(time.time(), 3)
RoundTime(t) ==
    LET ms == (t.us + 500) \div 1000
    IN  IF ms = 1000 THEN [sec |-> t.sec + 1, ms |-> 0]
        ELSE [sec |-> t.sec, ms |-> ms]

\* round(x, 2) of x given in thousandths
Round2(x3) == [neg |-> x3 < 0, mag |-> (Abs(x3) + 5) \div 10]

RECURSIVE DecDigits(_)
DecDigits(n) ==
    IF n < 10 THEN <<ZERO + n>>
    ELSE DecDigits(n \div 10) \o <<ZERO + (n % 10)>>

RECURSIVE DropTrailingZeros(_)
DropTrailingZeros(d) ==
    IF Len(d) > 1 /\ d[Len(d)] = ZERO
    THEN DropTrailingZeros(SubSeq(d, 1, Len(d) - 1))
    ELSE d

\* repr of a float with integer part whole and the given decimals
FloatRepr(neg, whole, decimals) ==
    (IF neg THEN <<MINUS>> ELSE <<>>)
        \o DecDigits(whole) \o <<DOT>> \o DropTrailingZeros(decimals)

\* the timestamp written with three decimals always, as format(t, '.3f')
TimeRepr_fixed(ts) ==
    DecDigits(ts.sec) \o <<DOT>>
        \o <<ZERO + (ts.ms \div 100), ZERO + ((ts.ms \div 10) % 10),
             ZERO + (ts.ms % 10)>>

\* the text of round(time.time(), 3) in an f-string
TimeRepr(ts) ==
    FloatRepr(FALSE, ts.sec,
              <<ZERO + (ts.ms \div 100), ZERO + ((ts.ms \div 10) % 10),
                ZERO + (ts.ms % 10)>>)

ValueRepr(v) ==
    FloatRepr(v.neg, v.mag \div 100,
              <<ZERO + ((v.mag \div 10) % 10), ZERO + (v.mag % 10)>>)

\* f"SAT|{timestamp}|{sensor_id}|{value}" followed by the checksum
FrameText(ts, sensor_id, v) ==
    LET body == HeaderSAT \o <<PIPE>> \o TimeRepr(ts) \o <<PIPE>> \o sensor_id
                    \o <<PIPE>> \o ValueRepr(v)
        cs   == checksum(body)
    IN  body \o <<PIPE>> \o cs \o <<NL>>

\* build_packet with the timestamp rounded to 2 places instead of 3
build_packet_round2(now, sensor_id, value) ==
    FrameText([sec |-> RoundTime(now).sec, ms |-> (RoundTime(now).ms \div 10) * 10],
              sensor_id, value)

build_packet(now, sensor_id, value) ==
    FrameText(RoundTime(now), sensor_id, value)

(***************************************************************************)
(* float(text) on the receiver side, for ASCII text.  The result is        *)
(* [kind, neg, whole, frac]: kind "ValueError" for the exception, "inf",   *)
(* "nan", or "finite" with the decimal value whole.frac (frac a digit      *)
(* sequence without trailing zeros).  Decimals are kept exactly; the       *)
(* integer part must fit the model's integers.                             *)
(***************************************************************************)
FloatError == [kind |-> "ValueError", neg |-> FALSE, whole |-> 0, frac |-> <<>>]

\* float() strips ASCII whitespace around the number
IsFloatSpace(c) == c \in 9..13 \/ c = 32 \/ (c > 127 /\ IsSpace(c))

\* the text float() parses: the argument without the whitespace around it
FloatStrip(s) ==
    LET Kept(i) == ~IsFloatSpace(s[i])
        kept == SelectSeq(Indices(Len(s)), Kept)
    IN  IF kept = <<>> THEN <<>> ELSE SubSeq(s, kept[1], kept[Len(kept)])

IsDigit(c) == c \in 48..57

Lower(c) == IF c \in 65..90 THEN c + 32 ELSE c

LowerText(s) == [i \in 1..Len(s) |-> Lower(s[i])]

\* digits, single underscores allowed between two digits
DigitGroup(p) ==
    /\ p # <<>>
    /\ IsDigit(p[1])
    /\ IsDigit(p[Len(p)])
    /\ \A i \in 1..Len(p) : IsDigit(p[i]) \/ p[i] = UNDERSCORE
    /\ \A i \in 1..(Len(p) - 1) : ~(p[i] = UNDERSCORE /\ p[i + 1] = UNDERSCORE)

RECURSIVE DigitsOf(_)
DigitsOf(p) ==
    IF p = <<>> THEN <<>>
    ELSE IF p[1] = UNDERSCORE THEN DigitsOf(Tail(p))
    ELSE <<p[1] - ZERO>> \o DigitsOf(Tail(p))

RECURSIVE NatOf(_, _)
NatOf(d, acc) ==
    IF d = <<>> THEN acc ELSE NatOf(Tail(d), 10 * acc + d[1])

RECURSIVE DropFracZeros(_)
DropFracZeros(d) ==
    IF d # <<>> /\ d[Len(d)] = 0 THEN DropFracZeros(SubSeq(d, 1, Len(d) - 1))
    ELSE d

Zeros(n) == [i \in 1..n |-> 0]

\* the value of mantissa digits ip.fp times 10^e
Scaled(neg, ip, fp, e) ==
    LET all   == ip \o fp
        point == Len(ip) + e
        w     == IF point <= 0 THEN <<>>
                 ELSE IF point >= Len(all) THEN all \o Zeros(point - Len(all))
                 ELSE SubSeq(all, 1, point)
        f     == IF point <= 0 THEN Zeros(-point) \o all
                 ELSE IF point >= Len(all) THEN <<>>
                 ELSE SubSeq(all, point + 1, Len(all))
    IN  [kind |-> "finite", neg |-> neg, whole |-> NatOf(w, 0),
         frac |-> DropFracZeros(f)]

\* the unsigned decimal literal: digits [. digits] [e [sign] digits]
ParseDecimal(neg, r) ==
    LET ke    == IndexOf(LowerText(r), 101)
        mant  == IF ke = 0 THEN r ELSE SubSeq(r, 1, ke - 1)
        ex    == IF ke = 0 THEN <<>> ELSE SubSeq(r, ke + 1, Len(r))
        exNeg == ex # <<>> /\ ex[1] = MINUS
        exDig == IF ex # <<>> /\ ex[1] \in {PLUS, MINUS} THEN Tail(ex) ELSE ex
        kd    == IndexOf(mant, DOT)
        ipart == IF kd = 0 THEN mant ELSE SubSeq(mant, 1, kd - 1)
        fpart == IF kd = 0 THEN <<>> ELSE SubSeq(mant, kd + 1, Len(mant))
        ok    == /\ ipart = <<>> \/ DigitGroup(ipart)
                 /\ fpart = <<>> \/ DigitGroup(fpart)
                 /\ ipart # <<>> \/ fpart # <<>>
                 /\ ke = 0 \/ DigitGroup(exDig)
    IN  IF ~ok THEN FloatError
        ELSE LET e == IF ke = 0 THEN 0
                      ELSE IF exNeg THEN -NatOf(DigitsOf(exDig), 0)
                      ELSE NatOf(DigitsOf(exDig), 0)
             IN  Scaled(neg, DigitsOf(ipart), DigitsOf(fpart), e)

\* "inf", "infinity", "nan" in lower case
InfText == <<105, 110, 102>>
InfinityText == <<105, 110, 102, 105, 110, 105, 116, 121>>
NanText == <<110, 97, 110>>

ParseFloat(text) ==
    LET t    == FloatStrip(text)
        sgn  == t # <<>> /\ t[1] \in {PLUS, MINUS}
        neg  == t # <<>> /\ t[1] = MINUS
        r    == IF sgn THEN Tail(t) ELSE t
        low  == LowerText(r)
    IN  IF low \in {InfText, InfinityText}
        THEN [kind |-> "inf", neg |-> neg, whole |-> 0, frac |-> <<>>]
        ELSE IF low = NanText
        THEN [kind |-> "nan", neg |-> FALSE, whole |-> 0, frac |-> <<>>]
        ELSE ParseDecimal(neg, r)

(***************************************************************************)
(* validate_packet.  ReturnLine is the line of receiver.py whose return    *)
(* statement ends the call: 30 (field count), 33 (header), 36 (checksum),  *)
(* 44 (ValueError caught), 38 (the reading).                               *)
(***************************************************************************)
None == [valid |-> FALSE, timestamp |-> FloatError, sensor_id |-> <<>>,
         value |-> FloatError]

\* a comparison that ignores the letter case of the received token
ChecksumMatches_nocase(body, received_checksum) ==
    LowerText(checksum(body)) = LowerText(received_checksum)

\* the received checksum equals the recomputed one (line 35)
ChecksumMatches(body, received_checksum) == checksum(body) = received_checksum

\* a validate_packet that takes the checksum from behind the last '|' and
\* counts the fields only after the header and the checksum were checked
Validated_rsplit(packet) ==
    LET text  == Strip(packet)
        parts == Split(text, PIPE)
        n     == Len(parts)
        body  == SubSeq(text, 1, Len(text) - Len(parts[n]) - 1)
        ts    == ParseFloat(parts[2])
        v     == ParseFloat(parts[4])
    IN  IF n < 2 THEN [line |-> 30, result |-> None]
        ELSE IF parts[1] # HeaderSAT THEN [line |-> 33, result |-> None]
        ELSE IF ~ChecksumMatches(body, parts[n]) THEN [line |-> 36, result |-> None]
        ELSE IF n # 5 THEN [line |-> 30, result |-> None]
        ELSE IF ts.kind = "ValueError" \/ v.kind = "ValueError"
             THEN [line |-> 44, result |-> None]
        ELSE [line |-> 38,
              result |-> [valid |-> TRUE, timestamp |-> ts,
                          sensor_id |-> parts[3], value |-> v]]

\* a validate_packet that compares the checksum before it looks at the header
Validated_sumfirst(packet) ==
    LET parts == Split(Strip(packet), PIPE)
        body  == parts[1] \o <<PIPE>> \o parts[2] \o <<PIPE>> \o parts[3]
                     \o <<PIPE>> \o parts[4]
        ts    == ParseFloat(parts[2])
        v     == ParseFloat(parts[4])
    IN  IF Len(parts) # 5 THEN [line |-> 30, result |-> None]
        ELSE IF ~ChecksumMatches(body, parts[5]) THEN [line |-> 36, result |-> None]
        ELSE IF parts[1] # HeaderSAT THEN [line |-> 33, result |-> None]
        ELSE IF ts.kind = "ValueError" \/ v.kind = "ValueError"
             THEN [line |-> 44, result |-> None]
        ELSE [line |-> 38,
              result |-> [valid |-> TRUE, timestamp |-> ts,
                          sensor_id |-> parts[3], value |-> v]]

\* the call's outcome: the return line and the value returned
Validated(packet) ==
    LET parts == Split(Strip(packet), PIPE)
    IN  IF Len(parts) # 5 THEN [line |-> 30, result |-> None]
        ELSE LET header    == parts[1]
                 timestamp == parts[2]
                 sensor_id == parts[3]
                 value     == parts[4]
                 received_checksum == parts[5]
                 body == header \o <<PIPE>> \o timestamp \o <<PIPE>> \o sensor_id
                             \o <<PIPE>> \o value
                 ts == ParseFloat(timestamp)
                 v  == ParseFloat(value)
             IN  IF header # HeaderSAT THEN [line |-> 33, result |-> None]
                 ELSE IF ~ChecksumMatches(body, received_checksum)
                      THEN [line |-> 36, result |-> None]
                 ELSE IF ts.kind = "ValueError" \/ v.kind = "ValueError"
                      THEN [line |-> 44, result |-> None]
                 ELSE [line |-> 38,
                       result |-> [valid |-> TRUE, timestamp |-> ts,
                                   sensor_id |-> sensor_id, value |-> v]]

ReturnLine(packet) == Validated(packet).line

validate_packet(packet) == Validated(packet).result

(***************************************************************************)
(* Emulator configuration.  base and drift in hundredths, noise and the    *)
(* spike ranges in thousandths.                                            *)
(***************************************************************************)
SENSORS ==
    <<[id |-> TEMP,     base |-> 2200,  noise |-> 500,  drift |-> 1],
      [id |-> HUMIDITY, base |-> 4500,  noise |-> 1000, drift |-> 2],
      [id |-> DISTANCE, base |-> 10000, noise |-> 2000, drift |-> 5]>>

\* outlier ranges whose low TEMP range reaches up to 20.0
spike_ranges_wide ==
    <<<<[lo |-> -20000, hi |-> 20000], [lo |-> 40000,  hi |-> 80000]>>,
      <<[lo |-> -10000, hi |-> 10000], [lo |-> 90000,  hi |-> 120000]>>,
      <<[lo |-> 0,      hi |-> 30000], [lo |-> 220000, hi |-> 400000]>>>>

\* the low and the high outlier range of each sensor, in thousandths
spike_ranges ==
    <<<<[lo |-> -20000, hi |-> 10000], [lo |-> 40000,  hi |-> 80000]>>,
      <<[lo |-> -10000, hi |-> 10000], [lo |-> 90000,  hi |-> 120000]>>,
      <<[lo |-> 0,      hi |-> 30000], [lo |-> 220000, hi |-> 400000]>>>>

\* TRANSMIT_RATE in microseconds
TRANSMIT_RATE == 100000
\* the recv() buffer size
RecvMax == 1024

(***************************************************************************)
(* The random module.  Its state is the sequence of draws it will return;  *)
(* one draw record serves one packet of the for loop:                      *)
(*   fault    random.randint(1, 50) == 1                                   *)
(*   corrupt  random.random() < 0.3                                        *)
(*   pick     the index random.choice returns (1 or 2)                     *)
(*   u        random.uniform's position in its range, in 1/Unit            *)
(***************************************************************************)
Unit == 10000

\* random.uniform(a, b), a and b in thousandths
uniform(a, b, u) == a + ((b - a) * u) \div Unit

(***************************************************************************)
(* State.                                                                  *)
(***************************************************************************)
VARIABLES
    txState,        \* emulator: AwaitingConnection, Streaming, Closed
    txError,        \* the exception that ended the emulator, or ""
    sweep,          \* index in SENSORS of the next sensor of the for loop; 4 = at sleep
    packet_count,   \* packets written
    sensor_state,   \* sensor index -> stored value, hundredths
    clock,          \* time.time() as [sec, us]
    rng,            \* the draws random will return, one record per packet
    txlog,          \* what the emulator printed: one record per pass of the for
                    \* loop that reached its print; sent = the write succeeded
    wire,           \* bytes written to the connection and not yet read
    stream,         \* all bytes written to the connection so far
    rxState,        \* receiver: Connecting, Receiving, Closed, Aborted
    rxError,        \* the exception that ended the receiver, or ""
    buffer,         \* the receiver's text buffer
    fed,            \* all text appended to buffer so far
    rxlog,          \* what the receiver printed: STORED and DISCARDED records
    db              \* rows inserted and committed

txVars == <<txState, txError, sweep, packet_count, sensor_state, clock, rng, txlog>>
rxVars == <<rxState, rxError, buffer, fed, rxlog, db>>
vars == <<txState, txError, sweep, packet_count, sensor_state, clock, rng, txlog,
          wire, stream, rxState, rxError, buffer, fed, rxlog, db>>

(***************************************************************************)
(* Emulator steps.                                                         *)
(***************************************************************************)
\* conn.sendall(packet.encode('utf-8'))
sendall(packet) ==
    /\ wire' = wire \o Utf8Encode(packet)
    /\ stream' = stream \o Utf8Encode(packet)

\* the peer's socket is closed: sendall raises
PeerGone == rxState \in {"Closed", "Aborted"}

\* a simulate_sensor that stores the noisy reading it returns
simulate_sensor_noisy(i, state, d) ==
    LET stored == state[i] + SENSORS[i].drift * (IF d.pick = 1 THEN -1 ELSE 1)
        noise3 == uniform(-SENSORS[i].noise, SENSORS[i].noise, d.u)
        value  == Round2(stored * 10 + noise3)
    IN  [state |-> [state EXCEPT ![i] = IF value.neg THEN -value.mag
                                        ELSE value.mag],
         value |-> value]

\* simulate_sensor(sensor_id): the new stored state and the returned value
simulate_sensor(i, state, d) ==
    LET stored == state[i] + SENSORS[i].drift * (IF d.pick = 1 THEN -1 ELSE 1)
        noise3 == uniform(-SENSORS[i].noise, SENSORS[i].noise, d.u)
    IN  [state |-> [state EXCEPT ![i] = stored],
         value |-> Round2(stored * 10 + noise3)]

\* the value spike of inject_fault, rounded
spike_value(i, d) ==
    Round2(uniform(spike_ranges[i][d.pick].lo, spike_ranges[i][d.pick].hi, d.u))

\* inject_fault whose spike frame is the body alone, without the checksum
inject_fault_nosum(i, d, now) ==
    IF d.corrupt THEN CorruptFrame
    ELSE HeaderSAT \o <<PIPE>> \o TimeRepr(RoundTime(now)) \o <<PIPE>>
             \o SENSORS[i].id \o <<PIPE>> \o ValueRepr(spike_value(i, d)) \o <<NL>>

\* inject_fault(sensor_id): the packet it returns
inject_fault(i, d, now) ==
    IF d.corrupt THEN CorruptFrame
    ELSE FrameText(RoundTime(now), SENSORS[i].id, spike_value(i, d))

\* the part of one for-loop pass that both branches share
Written(kind, value, packet) ==
    /\ txlog' = Append(txlog, [kind |-> kind, sensor_id |-> SENSORS[sweep].id,
                               timestamp |-> RoundTime(clock), value |-> value,
                               packet |-> packet, sent |-> TRUE])
    /\ sendall(packet)
    /\ sweep' = sweep + 1
    /\ packet_count' = packet_count + 1
    /\ rng' = Tail(rng)
    /\ UNCHANGED <<txState, txError, clock>>

\* a pass of the for loop can start; a write to a connection the peer has
\* left may still be taken by the socket
CanSend ==
    /\ txState = "Streaming"
    /\ sweep <= Len(SENSORS)
    /\ rng # <<>>

\* the else branch of the for loop: simulate_sensor, build_packet, sendall
TxNominal ==
    /\ CanSend
    /\ ~Head(rng).fault
    /\ LET r == simulate_sensor(sweep, sensor_state, Head(rng))
       IN  /\ sensor_state' = r.state
           /\ Written("TX", r.value, build_packet(clock, SENSORS[sweep].id, r.value))
    /\ UNCHANGED rxVars

\* a fault branch that stores the spike as the sensor's value
TxFault_store ==
    /\ CanSend
    /\ Head(rng).fault
    /\ \/ /\ Head(rng).corrupt
          /\ Written("CORRUPT", [neg |-> FALSE, mag |-> 0],
                     inject_fault(sweep, Head(rng), clock))
          /\ UNCHANGED sensor_state
       \/ /\ ~Head(rng).corrupt
          /\ Written("SPIKE", spike_value(sweep, Head(rng)),
                     inject_fault(sweep, Head(rng), clock))
          /\ sensor_state' = [sensor_state EXCEPT
                                 ![sweep] = spike_value(sweep, Head(rng)).mag]
    /\ UNCHANGED rxVars

\* the fault branch of the for loop: inject_fault, sendall
TxFault ==
    /\ CanSend
    /\ Head(rng).fault
    /\ \/ /\ Head(rng).corrupt
          /\ Written("CORRUPT", [neg |-> FALSE, mag |-> 0],
                     inject_fault(sweep, Head(rng), clock))
       \/ /\ ~Head(rng).corrupt
          /\ Written("SPIKE", spike_value(sweep, Head(rng)),
                     inject_fault(sweep, Head(rng), clock))
    /\ UNCHANGED sensor_state
    /\ UNCHANGED rxVars

\* a sleep that is taken one sensor short of the full sweep
TxSleep_short ==
    /\ txState = "Streaming"
    /\ sweep = Len(SENSORS)
    /\ sweep' = 1
    /\ clock' = IF clock.us + TRANSMIT_RATE >= 1000000
                THEN [sec |-> clock.sec + 1,
                      us |-> clock.us + TRANSMIT_RATE - 1000000]
                ELSE [sec |-> clock.sec, us |-> clock.us + TRANSMIT_RATE]
    /\ UNCHANGED <<txState, txError, packet_count, sensor_state, rng, txlog, wire,
                   stream>>
    /\ UNCHANGED rxVars

\* time.sleep(TRANSMIT_RATE) after the for loop
TxSleep ==
    /\ txState = "Streaming"
    /\ sweep = Len(SENSORS) + 1
    /\ sweep' = 1
    /\ clock' = IF clock.us + TRANSMIT_RATE >= 1000000
                THEN [sec |-> clock.sec + 1,
                      us |-> clock.us + TRANSMIT_RATE - 1000000]
                ELSE [sec |-> clock.sec, us |-> clock.us + TRANSMIT_RATE]
    /\ UNCHANGED <<txState, txError, packet_count, sensor_state, rng, txlog, wire,
                   stream>>
    /\ UNCHANGED rxVars

\* a failed write that is caught inside the loop, which goes on to the
\* next sensor
Failed_retry(kind, value, packet) ==
    /\ txlog' = Append(txlog, [kind |-> kind, sensor_id |-> SENSORS[sweep].id,
                               timestamp |-> RoundTime(clock), value |-> value,
                               packet |-> packet, sent |-> FALSE])
    /\ rng' = Tail(rng)
    /\ sweep' = sweep + 1
    /\ txError' = "BrokenPipeError"
    /\ UNCHANGED <<txState, packet_count, clock, wire, stream>>

\* the part of a pass whose sendall raises: the packet was built and printed,
\* nothing is written, the exception leaves run_emulator
Failed(kind, value, packet) ==
    /\ txlog' = Append(txlog, [kind |-> kind, sensor_id |-> SENSORS[sweep].id,
                               timestamp |-> RoundTime(clock), value |-> value,
                               packet |-> packet, sent |-> FALSE])
    /\ rng' = Tail(rng)
    /\ txState' = "Closed"
    /\ txError' = "BrokenPipeError"
    /\ UNCHANGED <<sweep, packet_count, clock, wire, stream>>

\* a pass of the for loop in which sendall raises because the receiver is gone
TxWriteFail ==
    /\ CanSend
    /\ PeerGone
    /\ \/ /\ ~Head(rng).fault
          /\ LET r == simulate_sensor(sweep, sensor_state, Head(rng))
             IN  /\ sensor_state' = r.state
                 /\ Failed("TX", r.value,
                           build_packet(clock, SENSORS[sweep].id, r.value))
       \/ /\ Head(rng).fault
          /\ Failed(IF Head(rng).corrupt THEN "CORRUPT" ELSE "SPIKE",
                    IF Head(rng).corrupt THEN [neg |-> FALSE, mag |-> 0]
                    ELSE spike_value(sweep, Head(rng)),
                    inject_fault(sweep, Head(rng), clock))
          /\ UNCHANGED sensor_state
    /\ UNCHANGED rxVars

\* the emulator process is interrupted; the with blocks close the connection
TxInterrupt ==
    /\ txState = "Streaming"
    /\ txState' = "Closed"
    /\ txError' = "KeyboardInterrupt"
    /\ UNCHANGED <<sweep, packet_count, sensor_state, clock, rng, txlog, wire,
                   stream>>
    /\ UNCHANGED rxVars

(***************************************************************************)
(* Receiver steps.                                                         *)
(***************************************************************************)
\* a split that also drops the character after the separator
SplitLine_skip(buf) ==
    LET k == IndexOf(buf, NL)
    IN  [line |-> SubSeq(buf, 1, k - 1), buffer |-> SubSeq(buf, k + 2, Len(buf))]

\* line, buffer = buffer.split('\n', 1)
SplitLine(buf) ==
    LET k == IndexOf(buf, NL)
    IN  [line |-> SubSeq(buf, 1, k - 1), buffer |-> SubSeq(buf, k + 1, Len(buf))]

\* the body of the inner while after the split: validate, then insert and
\* commit, or discard
Dispatch(line, st) ==
    LET packet == validate_packet(line)
    IN  IF packet.valid
        THEN [st EXCEPT !.rxlog = Append(@, [kind |-> "STORED", line |-> line,
                                             packet |-> packet]),
                        !.db = Append(@, [timestamp |-> packet.timestamp,
                                          sensor_id |-> packet.sensor_id,
                                          value |-> packet.value])]
        ELSE [st EXCEPT !.rxlog = Append(@, [kind |-> "DISCARDED", line |-> line,
                                             packet |-> packet])]

\* a loop that hands every part of the buffer to validate_packet, the
\* unterminated last one included
RECURSIVE Drain_flush(_)
Drain_flush(st) ==
    IF ~Contains(st.buffer, NL)
    THEN IF st.buffer = <<>> THEN st
         ELSE Dispatch(st.buffer, [st EXCEPT !.buffer = <<>>])
    ELSE LET sp == SplitLine(st.buffer)
         IN  Drain_flush(Dispatch(sp.line, [st EXCEPT !.buffer = sp.buffer]))

\* while '\n' in buffer: ...
RECURSIVE Drain(_)
Drain(st) ==
    IF ~Contains(st.buffer, NL) THEN st
    ELSE LET sp == SplitLine(st.buffer)
         IN  Drain(Dispatch(sp.line, [st EXCEPT !.buffer = sp.buffer]))

\* one iteration of the outer loop with n bytes returned by recv
Recv(n) ==
    LET data == Utf8Decode(SubSeq(wire, 1, n))
    IN  /\ wire' = SubSeq(wire, n + 1, Len(wire))
        /\ IF ~data.ok
           THEN /\ rxState' = "Aborted"
                /\ rxError' = "UnicodeDecodeError"
                /\ UNCHANGED <<buffer, fed, rxlog, db>>
           ELSE LET st == Drain([buffer |-> buffer \o data.text, rxlog |-> rxlog,
                                 db |-> db])
                IN  /\ buffer' = st.buffer
                    /\ rxlog' = st.rxlog
                    /\ db' = st.db
                    /\ fed' = fed \o data.text
                    /\ UNCHANGED <<rxState, rxError>>
        /\ UNCHANGED stream
        /\ UNCHANGED txVars

\* an end of stream that hands the pending fragment to validate_packet
\* before it leaves the loop
RxEOF_flush ==
    /\ rxState = "Receiving"
    /\ wire = <<>>
    /\ txState = "Closed"
    /\ rxState' = "Closed"
    /\ LET st == IF buffer = <<>> THEN [buffer |-> buffer, rxlog |-> rxlog, db |-> db]
                 ELSE Dispatch(buffer, [buffer |-> <<>>, rxlog |-> rxlog, db |-> db])
       IN  /\ buffer' = st.buffer
           /\ rxlog' = st.rxlog
           /\ db' = st.db
    /\ UNCHANGED <<rxError, fed, wire, stream>>
    /\ UNCHANGED txVars

\* an end of stream that raises instead of leaving the loop
RxEOF_raise ==
    /\ rxState = "Receiving"
    /\ wire = <<>>
    /\ txState = "Closed"
    /\ rxState' = "Aborted"
    /\ rxError' = "ConnectionError"
    /\ UNCHANGED <<buffer, fed, rxlog, db, wire, stream>>
    /\ UNCHANGED txVars

\* recv returns b'' once the peer has closed and everything was read
RxEOF ==
    /\ rxState = "Receiving"
    /\ wire = <<>>
    /\ txState = "Closed"
    /\ rxState' = "Closed"
    /\ UNCHANGED <<rxError, buffer, fed, rxlog, db, wire, stream>>
    /\ UNCHANGED txVars

\* the receiver process is interrupted
RxInterrupt ==
    /\ rxState = "Receiving"
    /\ rxState' = "Aborted"
    /\ rxError' = "KeyboardInterrupt"
    /\ UNCHANGED <<buffer, fed, rxlog, db, wire, stream>>
    /\ UNCHANGED txVars

\* s.connect on one side, server.accept returning on the other
Connect ==
    /\ txState = "AwaitingConnection"
    /\ rxState = "Connecting"
    /\ txState' = "Streaming"
    /\ rxState' = "Receiving"
    /\ UNCHANGED <<txError, sweep, packet_count, sensor_state, clock, rng, txlog,
                   wire, stream, rxError, buffer, fed, rxlog, db>>

(***************************************************************************)
(* The system: both processes and the connection between them.             *)
(***************************************************************************)
RxRecv ==
    /\ rxState = "Receiving"
    /\ wire # <<>>
    /\ \E n \in {Min(Len(wire), RecvMax), Min(Len(wire), ShortRead)} : Recv(n)

StartClocks ==
    {[sec |-> 1700000000, us |-> 123456],
     [sec |-> 1700000000, us |-> 100000],
     [sec |-> 1700000000, us |-> 999600]}

NominalDraws ==
    {[fault |-> FALSE, corrupt |-> FALSE, pick |-> p, u |-> u] :
        p \in {1, 2}, u \in {0, 4900, 9860}}

FaultDraws ==
    {[fault |-> TRUE, corrupt |-> TRUE, pick |-> 1, u |-> 0]}
        \cup {[fault |-> TRUE, corrupt |-> FALSE, pick |-> p, u |-> u] :
                p \in {1, 2}, u \in {6666, Unit}}

\* a corrupt fault and a plain nominal reading
AnchorDraws ==
    {[fault |-> TRUE, corrupt |-> TRUE, pick |-> 1, u |-> 0],
     [fault |-> FALSE, corrupt |-> FALSE, pick |-> 2, u |-> 4900]}

\* the draw sequences the model starts from: two draws alternating, one of
\* them an anchor
Tapes ==
    {[i \in 1..MaxPackets |-> IF i % 2 = 1 THEN p[1] ELSE p[2]] :
        p \in ((NominalDraws \cup FaultDraws) \X AnchorDraws)
                 \cup (AnchorDraws \X (NominalDraws \cup FaultDraws))}

InitTx ==
    /\ txError = ""
    /\ sweep = 1
    /\ packet_count = 0
    /\ sensor_state = [i \in 1..Len(SENSORS) |-> SENSORS[i].base]
    /\ txlog = <<>>

InitRx ==
    /\ rxError = ""
    /\ buffer = <<>>
    /\ fed = <<>>
    /\ rxlog = <<>>
    /\ db = <<>>

Init ==
    /\ InitTx
    /\ InitRx
    /\ txState = "AwaitingConnection"
    /\ rxState = "Connecting"
    /\ clock \in StartClocks
    /\ rng \in Tapes
    /\ wire = <<>>
    /\ stream = <<>>

Next ==
    \/ Connect
    \/ TxNominal
    \/ TxFault
    \/ TxSleep
    \/ TxWriteFail
    \/ TxInterrupt
    \/ RxRecv
    \/ RxEOF
    \/ RxInterrupt

Spec == Init /\ [][Next]_vars

(***************************************************************************)
(* The receiver alone, reading a byte stream that a peer wrote before it   *)
(* closed the connection: any short stream over RawAlphabet, or up to      *)
(* MaxFrames frames of FramePool.  recv may return any number of the       *)
(* available bytes.                                                        *)
(***************************************************************************)
\* '\n', 'A', and the two bytes of U+00E9 (the second is no valid text alone)
RawAlphabet == {10, 65, 195, 169}

\* "SAT|8|T|.5|4D\n"
ValidShort ==
    <<83, 65, 84, 124, 56, 124, 84, 124, 46, 53, 124, 52, 68, 10>>
\* "SAT|8|T|.5|4d\n": ValidShort with its token in lower case
LowerToken ==
    <<83, 65, 84, 124, 56, 124, 84, 124, 46, 53, 124, 52, 100, 10>>
\* "SAX|8|T|.5|ZZ\n": wrong header and wrong checksum
BadHeaderBadSum ==
    <<83, 65, 88, 124, 56, 124, 84, 124, 46, 53, 124, 90, 90, 10>>
\* "SAT|8|T|x|ZZ\n": wrong checksum and a value that is no number
BadSumBadValue ==
    <<83, 65, 84, 124, 56, 124, 84, 124, 120, 124, 90, 90, 10>>
\* "SAT|8|T|x|2E\n": right checksum, a value that is no number
BadValue ==
    <<83, 65, 84, 124, 56, 124, 84, 124, 120, 124, 50, 69, 10>>
\* "SAT|8|e'|2|D9\n" with U+00E9 as the sensor id, in UTF-8: right checksum
NonAscii ==
    <<83, 65, 84, 124, 56, 124, 195, 169, 124, 50, 124, 68, 57, 10>>
\* a frame cut down to one byte that is no valid text, and its separator
BadByte == <<255, 10>>

FramePool ==
    {ValidShort, LowerToken, BadHeaderBadSum, BadSumBadValue,
     BadValue, NonAscii, BadByte}

RECURSIVE FrameStreams(_)
FrameStreams(n) ==
    IF n = 0 THEN {<<>>}
    ELSE LET shorter == FrameStreams(n - 1)
         IN  shorter \cup {s \o f : s \in shorter, f \in FramePool}

RECURSIVE RawStreams(_)
RawStreams(n) ==
    IF n = 0 THEN {<<>>}
    ELSE LET shorter == RawStreams(n - 1)
         IN  shorter \cup {Append(s, b) : s \in shorter, b \in RawAlphabet}

\* streams that end in a valid frame cut off before its separator
TruncatedStreams ==
    {f \o SubSeq(ValidShort, 1, Len(ValidShort) - 1) : f \in FramePool \cup {<<>>}}

\* streams whose frames have whitespace around them: a space before the
\* header and a carriage return after the token, the carriage return alone,
\* a tab and a space around a frame with a bad value
PaddedStreams ==
    {<<32>> \o SubSeq(ValidShort, 1, Len(ValidShort) - 1) \o <<13, NL>>,
     SubSeq(ValidShort, 1, Len(ValidShort) - 1) \o <<13, NL>>,
     <<9>> \o SubSeq(BadValue, 1, Len(BadValue) - 1) \o <<32, NL>>}

RxRecvAny ==
    /\ rxState = "Receiving"
    /\ wire # <<>>
    /\ \E n \in 1..Min(Len(wire), RecvMax) : Recv(n)

InitStream ==
    /\ InitTx
    /\ InitRx
    /\ txState = "Closed"
    /\ rxState = "Receiving"
    /\ clock = [sec |-> 1700000000, us |-> 123456]
    /\ rng = <<>>
    /\ stream \in RawStreams(MaxRawLen) \cup FrameStreams(MaxFrames)
                   \cup TruncatedStreams \cup PaddedStreams
    /\ wire = stream

NextStream ==
    \/ RxRecvAny
    \/ RxEOF

SpecStream == InitStream /\ [][NextStream]_vars

(***************************************************************************)
(* What a decoded float says about the number that was encoded.            *)
(***************************************************************************)
\* the first n decimals of frac as a number, frac no longer than n
FracAsNat(frac, n) == NatOf(frac \o Zeros(n - Len(frac)), 0)

\* f is the value v (hundredths)
ReadsAsValue(f, v) ==
    /\ f.kind = "finite"
    /\ Len(f.frac) <= 2
    /\ f.whole * 100 + FracAsNat(f.frac, 2) = v.mag
    /\ v.mag # 0 => f.neg = v.neg

\* f is the timestamp ts (seconds and milliseconds)
ReadsAsTime(f, ts) ==
    /\ f.kind = "finite"
    /\ ~f.neg
    /\ Len(f.frac) <= 3
    /\ f.whole = ts.sec
    /\ FracAsNat(f.frac, 3) = ts.ms

(***************************************************************************)
(* C1.  Round trip: validate_packet applied to a frame that build_packet   *)
(* returned yields a reading (not None) whose sensor id, value and         *)
(* timestamp are the ones that were encoded.  Checked on every nominal     *)
(* packet the emulator wrote.                                              *)
(***************************************************************************)
C1_RoundTrip ==
    \A i \in DOMAIN txlog :
        txlog[i].kind = "TX" =>
            LET r == validate_packet(txlog[i].packet)
            IN  /\ r.valid
                /\ r.sensor_id = txlog[i].sensor_id
                /\ ReadsAsValue(r.value, txlog[i].value)
                /\ ReadsAsTime(r.timestamp, txlog[i].timestamp)

\* a nominal packet was built whose timestamp and value both lose trailing
\* zeros in their text (x.0)
C1_Witness ==
    \E i \in DOMAIN txlog :
        /\ txlog[i].kind = "TX"
        /\ txlog[i].timestamp.ms = 0
        /\ txlog[i].value.mag % 100 = 0

(***************************************************************************)
(* The outcome of a run of the receiver over a byte stream, and what the   *)
(* stream holds when it is looked at as a whole.                           *)
(***************************************************************************)
\* the stream was read to its end, or the receiver left its loop
Settled == wire = <<>> \/ rxState \in {"Closed", "Aborted"}

\* the candidate runs handed to validate_packet so far, in order
RunsOf(log) == [i \in 1..Len(log) |-> log[i].line]

Observed ==
    [aborted |-> rxError = "UnicodeDecodeError",
     runs    |-> RunsOf(rxlog),
     pending |-> buffer]

\* the outcome when the whole stream arrives as a single chunk
OneChunk ==
    LET whole == Utf8Decode(stream)
        parts == Split(whole.text, NL)
    IN  IF whole.ok
        THEN [aborted |-> FALSE,
              runs    |-> SubSeq(parts, 1, Len(parts) - 1),
              pending |-> parts[Len(parts)]]
        ELSE [aborted |-> TRUE, runs |-> <<>>, pending |-> <<>>]

(***************************************************************************)
(* C2.  Chunk-size independence: for any byte stream, the candidate runs   *)
(* the receiver extracts and the pending fragment left at the end are the  *)
(* same for every way of cutting the stream into received chunks; stated   *)
(* as: whatever the cuts were, the settled outcome is the single-chunk     *)
(* outcome.                                                                *)
(***************************************************************************)
C2_ChunkingIndependent == Settled => Observed = OneChunk

(***************************************************************************)
(* Reassembly, seen from the text appended to the buffer so far (fed).     *)
(***************************************************************************)
\* every run followed by one separator, in order
RECURSIVE JoinRuns(_, _, _)
JoinRuns(log, lo, hi) ==
    IF lo > hi THEN <<>>
    ELSE IF lo = hi THEN Append(log[lo].line, NL)
    ELSE LET mid == (lo + hi) \div 2
         IN  JoinRuns(log, lo, mid) \o JoinRuns(log, mid + 1, hi)

Count(s, c) == Len(SelectSeq(s, LAMBDA x : x = c))

IsPrefix(p, s) == Len(p) <= Len(s) /\ SubSeq(s, 1, Len(p)) = p

(***************************************************************************)
(* C3.  Byte conservation: after any sequence of feeds, the emitted runs,  *)
(* each followed by one separator, and then the pending fragment are       *)
(* exactly what was fed so far: nothing but the separators is dropped,     *)
(* nothing is emitted twice, and k separators fed are exactly k runs in    *)
(* stream order.  What was fed is, as bytes, the part of the stream taken  *)
(* from the connection by the feeds.                                       *)
(***************************************************************************)
C3_ByteConservation ==
    /\ JoinRuns(rxlog, 1, Len(rxlog)) \o buffer = fed
    /\ Len(rxlog) = Count(fed, NL)
    /\ IsPrefix(Utf8Encode(fed), stream)
    /\ rxError = "" => Utf8Encode(fed) \o wire = stream

\* several runs were emitted, one of them empty, and a fragment with a
\* character of more than one byte is pending
C3_Witness ==
    /\ Len(rxlog) >= 2
    /\ \E i \in DOMAIN rxlog : rxlog[i].line = <<>>
    /\ \E i \in DOMAIN buffer : buffer[i] > 127

(***************************************************************************)
(* C4.  An unterminated trailing fragment is never dispatched by the feed  *)
(* that received it: the buffer never holds a separator after a feed; a    *)
(* feed without a separator emits nothing and only lengthens the pending   *)
(* fragment; a feed with separators emits one run per separator, after     *)
(* the runs emitted before, and the first of them is the pending fragment  *)
(* joined with the fed text up to its first separator.                     *)
(***************************************************************************)
C4_FragmentHeld ==
    /\ [](~Contains(buffer, NL))
    /\ [][fed' # fed =>
            LET chunk == SubSeq(fed', Len(fed) + 1, Len(fed'))
                k     == IndexOf(chunk, NL)
            IN  /\ k = 0 => /\ rxlog' = rxlog
                            /\ db' = db
                            /\ buffer' = buffer \o chunk
                /\ k # 0 => /\ Len(rxlog') = Len(rxlog) + Count(chunk, NL)
                            /\ SubSeq(rxlog', 1, Len(rxlog)) = rxlog
                            /\ rxlog'[Len(rxlog) + 1].line =
                                   buffer \o SubSeq(chunk, 1, k - 1)]_vars

\* after a feed, with runs emitted before, a fragment is pending whose
\* separator is still to arrive
C4_Witness ==
    /\ rxlog # <<>>
    /\ buffer # <<>>
    /\ Contains(wire, NL)

(***************************************************************************)
(* The frames of the stream, taken one by one.                             *)
(***************************************************************************)
\* the separator-terminated frames of the stream, without their separators
Frames ==
    LET parts == Split(stream, NL)
    IN  SubSeq(parts, 1, Len(parts) - 1)

\* what one frame decodes to on its own: bytes that are no text are no
\* reading
Reading(frame) ==
    LET d == Utf8Decode(frame)
    IN  IF d.ok THEN validate_packet(d.text) ELSE None

ValidFrames == SelectSeq(Frames, LAMBDA f : Reading(f).valid)

\* the rows of the valid frames, in frame order
ExpectedRows ==
    [i \in 1..Len(ValidFrames) |->
        [timestamp |-> Reading(ValidFrames[i]).timestamp,
         sensor_id |-> Reading(ValidFrames[i]).sensor_id,
         value     |-> Reading(ValidFrames[i]).value]]

(***************************************************************************)
(* C5.  For any stream of separator-terminated frames and any chunking,    *)
(* the readings stored are exactly the valid frames of the stream, in      *)
(* order, whatever malformed frames surround them.                         *)
(***************************************************************************)
C5_ValidSubsequence == Settled => db = ExpectedRows

(***************************************************************************)
(* C6.  Total, non-aborting decode: no byte sequence makes the receiver    *)
(* leave its loop with an exception; every chunk ends with the loop back   *)
(* in Receiving.                                                           *)
(***************************************************************************)
C6_NeverAborts == rxError = "" /\ (wire # <<>> => rxState = "Receiving")

(***************************************************************************)
(* The emulator's frames as the receiver classifies them.  The i-th run    *)
(* the receiver dispatches is the i-th packet the emulator wrote.          *)
(***************************************************************************)
LastPipe(t) ==
    LET at == {i \in DOMAIN t : t[i] = PIPE}
    IN  IF at = {} THEN 0 ELSE CHOOSE i \in at : \A j \in at : j <= i

\* the token behind the last '|' is the checksum of what is in front of it
ChecksumValid(packet) ==
    LET t == Strip(packet)
        k == LastPipe(t)
    IN  k > 0 /\ checksum(SubSeq(t, 1, k - 1)) = SubSeq(t, k + 1, Len(t))

Stores(log) == Len(SelectSeq(log, LAMBDA e : e.kind = "STORED"))

(***************************************************************************)
(* C7.  Every frame the emulator writes is classified by fault class:      *)
(* every nominal frame and every spike frame is checksum-valid and is      *)
(* stored, with the sensor id and value written; the corrupt literal is    *)
(* discarded and never stored.                                             *)
(***************************************************************************)
C7_FaultClasses ==
    /\ Len(rxlog) <= Len(txlog)
    /\ (wire = <<>> /\ buffer = <<>>) => Len(rxlog) = packet_count
    /\ Len(db) = Stores(rxlog)
    /\ \A i \in DOMAIN rxlog :
        /\ Append(rxlog[i].line, NL) = txlog[i].packet
        /\ txlog[i].kind \in {"TX", "SPIKE"} =>
               /\ ChecksumValid(txlog[i].packet)
               /\ rxlog[i].kind = "STORED"
               /\ rxlog[i].packet.sensor_id = txlog[i].sensor_id
               /\ ReadsAsValue(rxlog[i].packet.value, txlog[i].value)
        /\ txlog[i].kind = "CORRUPT" => rxlog[i].kind = "DISCARDED"

\* a spike frame and a corrupt frame were both received
C7_Witness ==
    \E i, j \in DOMAIN rxlog :
        /\ txlog[i].kind = "SPIKE"
        /\ txlog[j].kind = "CORRUPT"

(***************************************************************************)
(* C8.  The corrupt literal the emulator writes, "SAT|CORRUPTED|###\n",    *)
(* has three '|'-separated fields rather than five, and validate_packet    *)
(* rejects it at the field-count check.                                    *)
(***************************************************************************)
C8_CorruptIsFieldCount ==
    \A i \in DOMAIN txlog :
        txlog[i].kind = "CORRUPT" =>
            /\ txlog[i].packet = CorruptFrame
            /\ Len(Split(Strip(txlog[i].packet), PIPE)) = 3
            /\ ReturnLine(txlog[i].packet) = 30
            /\ i <= Len(rxlog) =>
                   /\ rxlog[i].kind = "DISCARDED"
                   /\ ReturnLine(rxlog[i].line) = 30

\* the receiver has dispatched a corrupt frame
C8_Witness ==
    \E i \in DOMAIN rxlog : txlog[i].kind = "CORRUPT"

(***************************************************************************)
(* The four checks of a candidate, each on its own, and the order in which *)
(* they are to reject.  A discard reason is the check whose return is      *)
(* taken: 30 field count, 33 header, 36 checksum, 44 numeric parse.        *)
(***************************************************************************)
FieldsOf(line) == Split(Strip(line), PIPE)

FieldCountFails(line) == Len(FieldsOf(line)) # 5

HeaderFails(line) == FieldsOf(line)[1] # HeaderSAT

ChecksumFails(line) == ~ChecksumValid(line)

NumericFails(line) ==
    \/ ParseFloat(FieldsOf(line)[2]).kind = "ValueError"
    \/ ParseFloat(FieldsOf(line)[4]).kind = "ValueError"

FirstFailing(line) ==
    IF FieldCountFails(line) THEN 30
    ELSE IF HeaderFails(line) THEN 33
    ELSE IF ChecksumFails(line) THEN 36
    ELSE IF NumericFails(line) THEN 44
    ELSE 38

\* the text of a pool frame, without its separator
LineOf(frame) == SubSeq(frame, 1, Len(frame) - 1)

(***************************************************************************)
(* C9.  A rejected candidate is rejected for exactly one of four reasons,  *)
(* the first failing check in the order field count, header, checksum,     *)
(* numeric parse: a candidate with a wrong header and a wrong checksum is  *)
(* rejected for its header, one with a wrong checksum and a non-numeric    *)
(* value for its checksum.  A candidate is stored only if no check fails.  *)
(***************************************************************************)
C9_FirstFailingCheck ==
    \A i \in DOMAIN rxlog :
        LET line == rxlog[i].line
        IN  /\ ReturnLine(line) = FirstFailing(line)
            /\ rxlog[i].kind = "DISCARDED" <=> ReturnLine(line) \in {30, 33, 36, 44}
            /\ rxlog[i].kind = "STORED" <=> ReturnLine(line) = 38
            /\ line = LineOf(BadHeaderBadSum) => ReturnLine(line) = 33
            /\ line = LineOf(BadSumBadValue) => ReturnLine(line) = 36

\* both examples were dispatched: wrong header with wrong checksum, and
\* wrong checksum with a non-numeric value
C9_Witness ==
    /\ \E i \in DOMAIN rxlog :
          /\ rxlog[i].line = LineOf(BadHeaderBadSum)
          /\ rxlog[i].kind = "DISCARDED"
    /\ \E i \in DOMAIN rxlog :
          /\ rxlog[i].line = LineOf(BadSumBadValue)
          /\ rxlog[i].kind = "DISCARDED"

(***************************************************************************)
(* The checksum token of a line, put in upper case.                        *)
(***************************************************************************)
Upper(c) == IF c \in 97..122 THEN c - 32 ELSE c

WithUpperToken(line) ==
    LET k == LastPipe(line)
    IN  SubSeq(line, 1, k) \o [i \in 1..(Len(line) - k) |-> Upper(line[k + i])]

\* the line is a valid frame but for the letter case of its token
ValidButForCase(line) ==
    /\ WithUpperToken(line) # line
    /\ validate_packet(WithUpperToken(line)).valid

(***************************************************************************)
(* C10 as stated.  The checksum token is compared case-insensitively: a    *)
(* frame that differs from a valid frame only in the letter case of its    *)
(* token is accepted.                                                      *)
(***************************************************************************)
C10_CaseInsensitive ==
    \A i \in DOMAIN rxlog :
        ValidButForCase(rxlog[i].line) => rxlog[i].kind = "STORED"

(***************************************************************************)
(* C10 as amended.  The checksum token is compared exactly with the two    *)
(* upper-case hexadecimal digits the receiver computes: a frame that       *)
(* differs from a valid frame only in the letter case of its token is      *)
(* discarded at the checksum comparison.                                   *)
(***************************************************************************)
C10_CaseSensitive ==
    \A i \in DOMAIN rxlog :
        ValidButForCase(rxlog[i].line) =>
            /\ rxlog[i].kind = "DISCARDED"
            /\ ReturnLine(rxlog[i].line) = 36

\* a frame with a lower-case token was dispatched, after the same frame
\* with its token in upper case was stored
C10_Witness ==
    \E i, j \in DOMAIN rxlog :
        /\ ValidButForCase(rxlog[j].line)
        /\ rxlog[i].kind = "STORED"
        /\ rxlog[i].line = WithUpperToken(rxlog[j].line)

(***************************************************************************)
(* The receiver over one frame in which one bit of one body byte was       *)
(* flipped on the way.                                                     *)
(***************************************************************************)
BitFlip(c, k) == IF (c \div (2 ^ k)) % 2 = 1 THEN c - 2 ^ k ELSE c + 2 ^ k

FlipAt(s, i, k) == [s EXCEPT ![i] = BitFlip(s[i], k)]

\* "SAT|8|T|.5|4D\n" and a frame as build_packet makes it
FlipFrames ==
    {ValidShort,
     FrameText([sec |-> 17000, ms |-> 123], TEMP, [neg |-> FALSE, mag |-> 2247])}

\* every frame of FlipFrames with one bit of one byte of its body flipped
FlippedFrames ==
    UNION {{FlipAt(f, i, k) : i \in 1..(LastPipe(f) - 1), k \in 0..7} :
              f \in FlipFrames}

InitFlip ==
    /\ InitTx
    /\ InitRx
    /\ txState = "Closed"
    /\ rxState = "Receiving"
    /\ clock = [sec |-> 1700000000, us |-> 123456]
    /\ rng = <<>>
    /\ stream \in FlippedFrames
    /\ wire = stream

NextFlip ==
    \/ RxRecv
    \/ RxEOF

SpecFlip == InitFlip /\ [][NextFlip]_vars

\* the places where one bit of line can be flipped back to give a valid
\* frame that has the place in its body
BodyFlips(line) ==
    {p \in (DOMAIN line) \X (0..7) :
        LET o == FlipAt(line, p[1], p[2])
        IN  validate_packet(o).valid /\ p[1] < LastPipe(o)}

(***************************************************************************)
(* C11 as stated.  Flipping any single bit of any byte in the body of a    *)
(* valid frame (header, timestamp, sensor id, value or the delimiters      *)
(* between them) makes validate_packet reject it at the checksum           *)
(* comparison.                                                             *)
(***************************************************************************)
C11_AlwaysChecksumMismatch ==
    \A i \in DOMAIN rxlog :
        BodyFlips(rxlog[i].line) # {} => ReturnLine(rxlog[i].line) = 36

(***************************************************************************)
(* C11 as amended.  A candidate that is a valid frame with one bit of one  *)
(* body character flipped is always rejected, by the first check that      *)
(* fails: the field count when the flip made or unmade a delimiter, the    *)
(* header when the flip is in the header, the checksum otherwise.          *)
(***************************************************************************)
C11_FlipRejected ==
    \A i \in DOMAIN rxlog :
        LET line == rxlog[i].line
        IN  \A p \in BodyFlips(line) :
                /\ rxlog[i].kind = "DISCARDED"
                /\ ReturnLine(line) =
                       IF Count(Strip(line), PIPE) # 4 THEN 30
                       ELSE IF p[1] <= Len(HeaderSAT) THEN 33
                       ELSE 36

\* a frame with a bit flipped behind its header was dispatched and rejected
\* at the checksum comparison
C11_Witness ==
    \E i \in DOMAIN rxlog :
        \E p \in BodyFlips(rxlog[i].line) :
            /\ p[1] > Len(HeaderSAT)
            /\ ReturnLine(rxlog[i].line) = 36

(***************************************************************************)
(* C12.  When the transport is closed while the pending fragment is not    *)
(* empty, the fragment is dropped silently: after the close the runs       *)
(* handed to validate_packet are the separator-terminated runs of what     *)
(* was received and no more, the unterminated rest is still in the buffer, *)
(* and the table has one row per stored run.                               *)
(***************************************************************************)
C12_FragmentDropped ==
    rxState = "Closed" =>
        LET parts == Split(fed, NL)
        IN  /\ RunsOf(rxlog) = SubSeq(parts, 1, Len(parts) - 1)
            /\ buffer = parts[Len(parts)]
            /\ Len(db) = Stores(rxlog)

\* the loop was left with a fragment pending that would have been a valid
\* frame
C12_Witness ==
    /\ rxState = "Closed"
    /\ buffer # <<>>
    /\ validate_packet(buffer).valid

(***************************************************************************)
(* C13.  Receiver termination: a zero-length read in Receiving moves the   *)
(* loop to Closed without an error; once Closed nothing more is decoded,   *)
(* stored or discarded; and at the close every separator-terminated run of *)
(* the stream has been dispatched.                                         *)
(***************************************************************************)
C13_CleanClose ==
    /\ [](rxState = "Closed" =>
              /\ rxError = ""
              /\ Utf8Encode(fed) = stream
              /\ Len(rxlog) = Count(stream, NL))
    /\ [][(rxState = "Receiving" /\ wire = <<>> /\ rxState' # rxState) =>
              (rxState' = "Closed" /\ rxError' = "")]_vars
    /\ [][rxState = "Closed" =>
              (rxState' = "Closed" /\ rxlog' = rxlog /\ db' = db)]_vars

\* the loop was left after runs were stored and discarded
C13_Witness ==
    /\ rxState = "Closed"
    /\ \E i \in DOMAIN rxlog : rxlog[i].kind = "STORED"
    /\ \E i \in DOMAIN rxlog : rxlog[i].kind = "DISCARDED"

(***************************************************************************)
(* C14.  In Streaming every sweep writes one frame for each configured     *)
(* sensor, in configuration order: the i-th pass of the loop is for the    *)
(* sensor at place i modulo the number of sensors, and the loop stands at  *)
(* the sensor the count of written packets tells.  The emulator sleeps     *)
(* only after a full sweep: the clock moves only when a whole number of    *)
(* sweeps has been written and no frame is written by that step, and the   *)
(* first frame of a sweep is written after the sleep that ended the sweep  *)
(* before.                                                                 *)
(***************************************************************************)
C14_SweepOrder ==
    /\ [](\A i \in DOMAIN txlog :
              /\ txlog[i].sensor_id = SENSORS[((i - 1) % Len(SENSORS)) + 1].id
              /\ (i > 1 /\ (i - 1) % Len(SENSORS) = 0) =>
                     txlog[i].timestamp # txlog[i - 1].timestamp)
    /\ [](txState = "Streaming" =>
              \/ sweep = (packet_count % Len(SENSORS)) + 1
              \/ /\ sweep = Len(SENSORS) + 1
                 /\ packet_count > 0
                 /\ packet_count % Len(SENSORS) = 0)
    /\ [][clock' # clock =>
              /\ packet_count > 0
              /\ packet_count % Len(SENSORS) = 0
              /\ sweep = Len(SENSORS) + 1
              /\ stream' = stream
              /\ txlog' = txlog]_vars

\* a full sweep was written, the emulator slept, and the next sweep has
\* started with the first sensor
C14_Witness ==
    /\ packet_count = Len(SENSORS) + 1
    /\ txlog[Len(SENSORS) + 1].sensor_id = TEMP
    /\ txlog[Len(SENSORS) + 1].sent

(***************************************************************************)
(* C15.  A failed write ends the emulator for good.  The write that        *)
(* raised put nothing on the connection and counted no packet; from then   *)
(* on the emulator is Closed and no step changes its state, its sensor     *)
(* values, its log, its place in the sweep or the bytes written, and no    *)
(* step takes it back to AwaitingConnection or Streaming.                  *)
(***************************************************************************)
C15_WriteFailureFatal ==
    /\ [](txError = "BrokenPipeError" =>
              /\ txState = "Closed"
              /\ txlog # <<>>
              /\ ~txlog[Len(txlog)].sent
              /\ \A i \in 1..(Len(txlog) - 1) : txlog[i].sent
              /\ packet_count = Len(txlog) - 1)
    /\ [][(txError # "BrokenPipeError" /\ txError' = "BrokenPipeError") =>
              /\ stream' = stream
              /\ wire' = wire
              /\ packet_count' = packet_count]_vars
    /\ [][txError = "BrokenPipeError" =>
              UNCHANGED <<txState, txError, sweep, packet_count, sensor_state,
                          clock, rng, txlog, stream>>]_vars
    /\ [][txState = "Closed" => txState' = "Closed"]_vars

\* the write failed in the middle of a sweep with draws still to come
C15_Witness ==
    /\ txError = "BrokenPipeError"
    /\ sweep < Len(SENSORS)
    /\ rng # <<>>
    /\ packet_count > 0

(***************************************************************************)
(* C16.  Fault injection leaves the sensor state alone: a pass of the for  *)
(* loop that takes the fault branch, whether it returns the corrupt frame  *)
(* or a spike and whether its write succeeds or raises, leaves the stored  *)
(* value of every sensor as it was, the sampled one included.              *)
(***************************************************************************)
C16_FaultKeepsState ==
    [][(txlog' # txlog /\ txlog'[Len(txlog')].kind \in {"CORRUPT", "SPIKE"}) =>
           sensor_state' = sensor_state]_vars

\* a nominal reading moved the first sensor, then a spike was written for the
\* second one, whose stored value is still its baseline
C16_Witness ==
    /\ Len(txlog) = 2
    /\ txlog[1].kind = "TX"
    /\ txlog[2].kind = "SPIKE"
    /\ txlog[2].sent
    /\ sensor_state[1] # SENSORS[1].base
    /\ sensor_state[2] = SENSORS[2].base
    /\ txlog[2].value.mag # SENSORS[2].base

(***************************************************************************)
(* The stored state is a binary double.  sensor_state holds it rounded to  *)
(* 2 places, in hundredths; the double itself is the baseline plus net     *)
(* steps of the double nearest to the sum, where net is the number of      *)
(* upward less the number of downward steps.  While the state stays in the *)
(* binade of its baseline every sum is rounded to a multiple of the same   *)
(* unit in the last place (ulp), so each step moves the double by the      *)
(* whole number of ulps nearest to the drift.                              *)
(***************************************************************************)
RECURSIVE Pow2Mod(_, _)
\* 2^k modulo m
Pow2Mod(k, m) == IF k = 0 THEN 1 % m ELSE (2 * Pow2Mod(k - 1, m)) % m

\* e with 2^e <= base < 2^(e+1)
Binade(i) ==
    CHOOSE e \in 0..10 :
        /\ 100 * (2 ^ e) <= SENSORS[i].base
        /\ SENSORS[i].base < 100 * (2 ^ (e + 1))

\* the ulp of the baseline's binade is 2^-UlpExp
UlpExp(i) == 52 - Binade(i)

\* the part of the drift, counted in ulps, after the point, in hundredths
StepFrac(i) == (SENSORS[i].drift * Pow2Mod(UlpExp(i), 100)) % 100

\* what one step of the double is more than the drift, in hundredths of an ulp
StepExcess(i) == IF StepFrac(i) > 50 THEN 100 - StepFrac(i) ELSE -StepFrac(i)

\* upward less downward steps taken by sensor i
NetSteps(i) == (sensor_state[i] - SENSORS[i].base) \div SENSORS[i].drift

\* the calls of simulate_sensor for sensor i
Calls(i) ==
    Cardinality({k \in DOMAIN txlog :
                    txlog[k].kind = "TX" /\ txlog[k].sensor_id = SENSORS[i].id})

\* the double of sensor i is farther from its baseline than n times the
\* drift; the drift is more than 2^40 ulps, the excess of a step less than one
ExceedsDrift(i, n) ==
    \/ Abs(NetSteps(i)) > n
    \/ /\ Abs(NetSteps(i)) = n
       /\ n > 0
       /\ StepExcess(i) > 0

\* a step changes the stored value of the sampled sensor only, by one drift
OnlySampledMoves ==
    [][\A i \in DOMAIN sensor_state :
           sensor_state'[i] # sensor_state[i] =>
               /\ i = sweep
               /\ Len(txlog') = Len(txlog) + 1
               /\ txlog'[Len(txlog')].kind = "TX"
               /\ Abs(sensor_state'[i] - sensor_state[i]) = SENSORS[i].drift]_vars

(***************************************************************************)
(* C17 as stated.  After N calls of simulate_sensor for a sensor its       *)
(* stored state differs from the baseline by at most N times the drift,    *)
(* and calls for one sensor leave the others alone.                        *)
(***************************************************************************)
C17_DriftBound ==
    /\ [](\A i \in DOMAIN sensor_state : ~ExceedsDrift(i, Calls(i)))
    /\ OnlySampledMoves

(***************************************************************************)
(* C17, amended.  After N calls of simulate_sensor for a sensor its stored *)
(* state rounded to 2 places differs from the baseline by at most N times  *)
(* the drift, the double itself is off that rounded value by at most half  *)
(* an ulp for each call, and calls for one sensor leave the others alone.  *)
(***************************************************************************)
C17_DriftBoundRounded ==
    /\ [](\A i \in DOMAIN sensor_state :
              /\ Abs(sensor_state[i] - SENSORS[i].base)
                     <= Calls(i) * SENSORS[i].drift
              /\ (sensor_state[i] - SENSORS[i].base) % SENSORS[i].drift = 0
              /\ Abs(NetSteps(i) * StepExcess(i)) <= Calls(i) * 50)
    /\ OnlySampledMoves

\* TEMP was sampled twice, one sweep apart, and moved the same way both times
C17_Witness ==
    /\ Calls(1) = 2
    /\ Abs(NetSteps(1)) = 2
    /\ Calls(2) <= 1
    /\ packet_count = Len(SENSORS) + 1

(***************************************************************************)
(* The timestamp field of the frames that carry a reading: the nominal     *)
(* frames of build_packet and the spike frames of inject_fault.            *)
(***************************************************************************)
TimeField(packet) == FieldsOf(packet)[2]

\* the number of characters after the decimal point
FracDigits(text) == Len(text) - IndexOf(text, DOT)

\* the digits the shortest text of a time with ms milliseconds has after the
\* point
ShortestDigits(ms) ==
    IF ms % 100 = 0 THEN 1 ELSE IF ms % 10 = 0 THEN 2 ELSE 3

EncodedEntries == {i \in DOMAIN txlog : txlog[i].kind \in {"TX", "SPIKE"}}

(***************************************************************************)
(* C18 as stated.  In every frame the encoder produces the timestamp field *)
(* has exactly 3 digits after the point.                                   *)
(***************************************************************************)
C18_ThreeFractionalDigits ==
    \A i \in EncodedEntries :
        /\ Contains(TimeField(txlog[i].packet), DOT)
        /\ FracDigits(TimeField(txlog[i].packet)) = 3

(***************************************************************************)
(* C18, amended.  In every frame the encoder produces the timestamp field  *)
(* is the shortest decimal text of the time rounded to 3 places: it has a  *)
(* point followed by at least 1 and at most 3 digits, trailing zeros are   *)
(* left out (one digit is kept after the point), and it reads back as the  *)
(* rounded time.                                                           *)
(***************************************************************************)
C18_ShortestFractionalDigits ==
    \A i \in EncodedEntries :
        LET text == TimeField(txlog[i].packet)
        IN  /\ Contains(text, DOT)
            /\ FracDigits(text) = ShortestDigits(txlog[i].timestamp.ms)
            /\ ReadsAsTime(ParseFloat(text), txlog[i].timestamp)

\* a nominal frame and a spike frame were written at a time whose
\* millisecond part ends in zero
C18_Witness ==
    \E i, j \in EncodedEntries :
        /\ txlog[i].kind = "TX"
        /\ txlog[j].kind = "SPIKE"
        /\ txlog[i].timestamp.ms = 100
        /\ FracDigits(TimeField(txlog[i].packet)) = 1
        /\ FracDigits(TimeField(txlog[j].packet)) < 3

(***************************************************************************)
(* A candidate judged with the whitespace it has: only one trailing record *)
(* separator is taken off before the split.                                *)
(***************************************************************************)
DropSeparator(line) ==
    IF line # <<>> /\ line[Len(line)] = NL
    THEN SubSeq(line, 1, Len(line) - 1)
    ELSE line

JudgedAsIs(line) ==
    LET parts == Split(DropSeparator(line), PIPE)
    IN  /\ Len(parts) = 5
        /\ parts[1] = HeaderSAT
        /\ ChecksumMatches(parts[1] \o <<PIPE>> \o parts[2] \o <<PIPE>> \o parts[3]
                               \o <<PIPE>> \o parts[4], parts[5])
        /\ ParseFloat(parts[2]).kind # "ValueError"
        /\ ParseFloat(parts[4]).kind # "ValueError"

\* the candidate from its first to its last character that is not whitespace
WithoutPadding(line) ==
    LET Inked(i) == ~IsSpace(line[i])
        inked == SelectSeq(Indices(Len(line)), Inked)
    IN  IF inked = <<>> THEN <<>> ELSE SubSeq(line, inked[1], inked[Len(inked)])

(***************************************************************************)
(* C19 as stated.  Decode removes at most one trailing record separator    *)
(* and nothing else: every candidate is judged with the leading and        *)
(* trailing whitespace it has, which stays in its first or last field.     *)
(***************************************************************************)
C19_OnlySeparatorStripped ==
    \A i \in DOMAIN rxlog :
        rxlog[i].kind = "STORED" <=> JudgedAsIs(rxlog[i].line)

(***************************************************************************)
(* C19, amended.  Decode removes all leading and trailing whitespace of    *)
(* the candidate before the split: every candidate is judged as the text   *)
(* between its first and last character that is not whitespace, and a      *)
(* stored reading's sensor id is a field of that text.                     *)
(***************************************************************************)
C19_WhitespaceStripped ==
    \A i \in DOMAIN rxlog :
        LET core == WithoutPadding(rxlog[i].line)
        IN  /\ rxlog[i].kind = "STORED" <=> JudgedAsIs(core)
            /\ rxlog[i].kind = "STORED" =>
                   rxlog[i].packet.sensor_id = Split(core, PIPE)[3]

\* a frame with a space before its header and a carriage return after its
\* token was stored
C19_Witness ==
    \E i \in DOMAIN rxlog :
        /\ rxlog[i].line = <<32>> \o LineOf(ValidShort) \o <<13>>
        /\ rxlog[i].kind = "STORED"
        /\ ~JudgedAsIs(rxlog[i].line)

(***************************************************************************)
(* The anomalies query of the API: its thresholds, in hundredths, and the  *)
(* threshold clause of its WHERE condition,                                *)
(*   (sensor_id = %s AND (value < %s OR value > %s)) OR ...                *)
(***************************************************************************)
ANOMALY_THRESHOLDS ==
    <<[id |-> TEMP,     min |-> 1500, max |-> 3000],
      [id |-> HUMIDITY, min |-> 2000, max |-> 8000],
      [id |-> DISTANCE, min |-> 5000, max |-> 20000]>>

\* the row (sensor_id, value) satisfies the threshold clauses; value in
\* hundredths
anomaly_where(sensor_id, value) ==
    \E k \in DOMAIN ANOMALY_THRESHOLDS :
        /\ sensor_id = ANOMALY_THRESHOLDS[k].id
        /\ (value < ANOMALY_THRESHOLDS[k].min \/ value > ANOMALY_THRESHOLDS[k].max)

\* a rounded value [neg, mag] in hundredths
Hundredths(v) == IF v.neg THEN -v.mag ELSE v.mag

\* a stored value, as float() read it, in hundredths
RowHundredths(f) ==
    (IF f.neg THEN -1 ELSE 1) * (f.whole * 100 + FracAsNat(f.frac, 2))

\* positions of random.uniform in its range: both ends and points between
SpikePositions == {0, 1, Unit \div 3, Unit \div 2, Unit - 1, Unit}

(***************************************************************************)
(* C20.  Every spike value the fault injector can produce for a sensor     *)
(* lies strictly below the minimum or strictly above the maximum the       *)
(* anomalies query has for that sensor: at both ends of each outlier range *)
(* and between them, for every spike the emulator wrote, and for every row *)
(* the receiver stored from a spike frame.                                 *)
(***************************************************************************)
C20_SpikesAreAnomalies ==
    /\ \A i \in DOMAIN SENSORS : \A pick \in {1, 2} : \A u \in SpikePositions :
           anomaly_where(SENSORS[i].id,
                         Hundredths(spike_value(i, [pick |-> pick, u |-> u])))
    /\ \A j \in DOMAIN txlog :
           txlog[j].kind = "SPIKE" =>
               /\ anomaly_where(txlog[j].sensor_id, Hundredths(txlog[j].value))
               /\ \A i \in DOMAIN rxlog :
                      rxlog[i].line = LineOf(txlog[j].packet) =>
                          /\ rxlog[i].kind = "STORED"
                          /\ Len(rxlog[i].packet.value.frac) <= 2
                          /\ anomaly_where(rxlog[i].packet.sensor_id,
                                           RowHundredths(rxlog[i].packet.value))

\* a TEMP spike at the upper end of the low range, 10.0, was written and the
\* receiver stored it
C20_Witness ==
    \E j \in DOMAIN txlog : \E i \in DOMAIN rxlog :
        /\ txlog[j].kind = "SPIKE"
        /\ txlog[j].sensor_id = TEMP
        /\ txlog[j].value = [neg |-> FALSE, mag |-> 1000]
        /\ rxlog[i].kind = "STORED"
        /\ rxlog[i].line = LineOf(txlog[j].packet)
        /\ RowHundredths(rxlog[i].packet.value) = 1000

=============================================================================
